---- MODULE Spec2Model ----
(***************************************************************************)
(* Model of lehnert-db (ldb): the Collection/Field schema entities with    *)
(* their `original` snapshots (Forward/Clone), the DuckDB transaction's    *)
(* SaveCollection, the column definition derivation (columnSQL), the       *)
(* identifier format (GenerateId/ValidateId) and the field type catalog's  *)
(* ValidateValue.                                                          *)
(*                                                                         *)
(* Go pointers are modelled explicitly where the code shares them: Field   *)
(* objects live in fieldHeap and []*Field slices are (array, len) headers  *)
(* over backing arrays, so a copied slice header aliases its source.       *)
(* A nil pointer is the empty sequence <<>>, a non-nil pointer to a value  *)
(* that nothing else references is the one-element sequence <<value>>.     *)
(***************************************************************************)
EXTENDS Integers, Sequences, FiniteSets, TLC

VARIABLES
    fieldHeap,   \* Field objects, addressed by index (a *Field is an index)
    arrays,      \* backing arrays of []*Field slices; 0 is an unused slot
    collection,  \* the host's live Collection: [original, Name, Schema]
    stmts,       \* statements the last SaveCollection call passed to tx.Exec
    execErrs,    \* what tx.Exec returned for each of them, in the same order
    result,      \* outcome of the last SaveCollection call
    snap,        \* history: deep value of the collection when Forward last ran
    delta,       \* history: host mutations since Forward last ran
    steps,       \* number of host mutations and Forward calls so far
    idSource,    \* where idValue comes from: "generated" or "supplied"
    idValue,     \* the value a caller holds and passes to ValidateId
    idErr,       \* what ValidateId returned for idValue
    idEdits,     \* history: the edits the caller made to the supplied value
    vType,       \* the FieldType whose ValidateValue is called
    vInput,      \* the value passed to ValidateValue
    vOut         \* what ValidateValue returned: <<>> or <<[value, err]>>

schemaVars == <<fieldHeap, arrays, collection, stmts, execErrs, result, snap,
                delta, steps>>
idVars == <<idSource, idValue, idErr, idEdits>>
valVars == <<vType, vInput, vOut>>
vars == <<schemaVars, idVars, valVars>>

-----------------------------------------------------------------------------
(* Bounds *)

MaxSteps == 3        \* host mutations and Forward calls explored
MaxFieldObjs == 4    \* Field objects ever allocated
MaxFail == 2         \* the storage transaction may fail the 1st..MaxFail-th Exec
MaxEdits == 1        \* edits a caller makes to a supplied identifier

-----------------------------------------------------------------------------
(* Go values of type `any`, as ValidateValue receives and returns them *)

NilV == [tag |-> "nil", s |-> "", n |-> 0]
StrV(x) == [tag |-> "string", s |-> x, n |-> 0]
IntV(x) == [tag |-> "int64", s |-> "", n |-> x]
FloatV(x) == [tag |-> "float64", s |-> "", n |-> x]
BoolV(b) == [tag |-> "bool", s |-> "", n |-> IF b THEN 1 ELSE 0]
TimeV(t) == [tag |-> "time.Time", s |-> "", n |-> t]

-----------------------------------------------------------------------------
(* The field type catalog.  A provider (func() T) is <<>> when nil and      *)
(* <<v>> when it returns v.                                                 *)

BaseType(kind, nullable) ==
    [kind |-> kind, Nullable |-> nullable, PrimaryKey |-> FALSE,
     Collection |-> "", CascadeDelete |-> FALSE, EnumValues |-> <<>>,
     CreateDefaultValue |-> <<>>, CreateMin |-> <<>>, CreateMax |-> <<>>,
     CreatePattern |-> <<>>]

FieldTypeId(nullable, primaryKey, def) ==
    [BaseType("FieldTypeId", nullable) EXCEPT
        !.PrimaryKey = primaryKey, !.CreateDefaultValue = def]

FieldTypeText(nullable, def, minLen, maxLen, pattern) ==
    [BaseType("FieldTypeText", nullable) EXCEPT
        !.CreateDefaultValue = def, !.CreateMin = minLen,
        !.CreateMax = maxLen, !.CreatePattern = pattern]

FieldTypeInt(nullable, def, min, max) ==
    [BaseType("FieldTypeInt", nullable) EXCEPT
        !.CreateDefaultValue = def, !.CreateMin = min, !.CreateMax = max]

FieldTypeFloat(nullable, def, min, max) ==
    [BaseType("FieldTypeFloat", nullable) EXCEPT
        !.CreateDefaultValue = def, !.CreateMin = min, !.CreateMax = max]

FieldTypeBool(nullable, def) ==
    [BaseType("FieldTypeBool", nullable) EXCEPT !.CreateDefaultValue = def]

FieldTypeDateTime(nullable, def, min, max) ==
    [BaseType("FieldTypeDateTime", nullable) EXCEPT
        !.CreateDefaultValue = def, !.CreateMin = min, !.CreateMax = max]

FieldTypeEnum(nullable, values, def) ==
    [BaseType("FieldTypeEnum", nullable) EXCEPT
        !.EnumValues = values, !.CreateDefaultValue = def]

FieldTypeSingleRelation(nullable, target, cascade) ==
    [BaseType("FieldTypeSingleRelation", nullable) EXCEPT
        !.Collection = target, !.CascadeDelete = cascade]

\* FieldType.Clone: every variant returns a copy of the struct; the enum
\* also copies its EnumValues element by element into a fresh slice.
CloneType(ft) ==
    IF ft.kind = "FieldTypeEnum"
    THEN [ft EXCEPT !.EnumValues =
              [i \in 1..Len(ft.EnumValues) |-> ft.EnumValues[i]]]
    ELSE ft

-----------------------------------------------------------------------------
(* Column definitions *)

withNullConstraint(sql, nullable) ==
    IF nullable THEN sql \o " NULL" ELSE sql \o " NOT NULL"

columnSQL(column, ft) ==
    CASE ft.kind = "FieldTypeBool" ->
            withNullConstraint(column \o " BOOL", ft.Nullable)
      [] ft.kind = "FieldTypeDateTime" ->
            withNullConstraint(column \o " TIMESTAMP", ft.Nullable)
      [] ft.kind = "FieldTypeEnum" ->
            withNullConstraint(column \o " TEXT", ft.Nullable)
      [] ft.kind = "FieldTypeFloat" ->
            withNullConstraint(column \o " REAL", ft.Nullable)
      [] ft.kind = "FieldTypeId" ->
            withNullConstraint(column \o " TEXT", ft.Nullable \/ ft.PrimaryKey)
                \o (IF ft.PrimaryKey THEN " PRIMARY KEY" ELSE "")
      [] ft.kind = "FieldTypeInt" ->
            withNullConstraint(column \o " BIGINT", ft.Nullable)
      [] ft.kind = "FieldTypeSingleRelation" ->
            withNullConstraint(column \o " TEXT", ft.Nullable)
                \o " REFERENCES " \o ft.Collection \o "(id)"
                \o (IF ft.CascadeDelete THEN " ON DELETE CASCADE" ELSE "")
      [] ft.kind = "FieldTypeText" ->
            withNullConstraint(column \o " TEXT", ft.Nullable)

\* strings.Join
RECURSIVE Join(_, _)
Join(elems, sep) ==
    IF Len(elems) = 0 THEN ""
    ELSE IF Len(elems) = 1 THEN elems[1]
    ELSE elems[1] \o sep \o Join(Tail(elems), sep)

-----------------------------------------------------------------------------
(* Schema entities, Clone and Forward *)

\* the *Field pointers a []*Field slice header gives access to, in order
Elems(hdr) == [i \in 1..hdr.len |-> arrays[hdr.arr][i]]

FieldSchemaClone(s) == [Type |-> CloneType(s.Type)]

FieldClone(f) ==
    [original |-> <<>>, Name |-> f.Name, Schema |-> FieldSchemaClone(f.Schema)]

\* `cloned := s` copies the struct, slice header included; clonedFields is
\* filled with clones of the fields and then dropped.
CollectionSchemaClone(s) ==
    LET cloned == s
        clonedFields == [i \in 1..s.Fields.len |->
                            FieldClone(fieldHeap[Elems(s.Fields)[i]])]
    IN  cloned

CollectionClone(c) ==
    [original |-> <<>>, Name |-> c.Name, Schema |-> CollectionSchemaClone(c.Schema)]

\* Field.Forward on the object p points to
FieldForward(heap, p) ==
    [heap EXCEPT ![p].original = <<FieldClone(heap[p])>>]

RECURSIVE ForwardAll(_, _)
ForwardAll(heap, ptrs) ==
    IF ptrs = <<>> THEN heap
    ELSE ForwardAll(FieldForward(heap, Head(ptrs)), Tail(ptrs))

\* the value of a collection: its name and the names and types of its fields
DeepValue(c) ==
    [Name |-> c.Name,
     Fields |-> [i \in 1..c.Schema.Fields.len |->
                    LET f == fieldHeap[Elems(c.Schema.Fields)[i]]
                    IN  [Name |-> f.Name, Type |-> f.Schema.Type]]]

Touch(op, idx, from, to) ==
    /\ steps < MaxSteps
    /\ steps' = steps + 1
    /\ delta' = Append(delta, [op |-> op, idx |-> idx, from |-> from, to |-> to])
    /\ stmts' = <<>>
    /\ execErrs' = <<>>
    /\ result' = "none"
    /\ UNCHANGED <<idVars, valVars>>

Forward ==
    /\ steps < MaxSteps
    /\ collection' = [collection EXCEPT !.original = <<CollectionClone(collection)>>]
    /\ fieldHeap' = ForwardAll(fieldHeap, Elems(collection.Schema.Fields))
    /\ snap' = <<DeepValue(collection)>>
    /\ delta' = <<>>
    /\ steps' = steps + 1
    /\ stmts' = <<>>
    /\ execErrs' = <<>>
    /\ result' = "none"
    /\ UNCHANGED <<arrays, idVars, valVars>>

-----------------------------------------------------------------------------
(* The host's declarations and mutations of the exported fields *)

NewField(name, ft) == [original |-> <<>>, Name |-> name, Schema |-> [Type |-> ft]]

Decl(name, ft) == [Name |-> name, Type |-> ft]

\* the fields the host declares when it constructs the collection
DId == Decl("id", FieldTypeId(FALSE, TRUE, <<>>))
DPk == Decl("pk", FieldTypeId(TRUE, TRUE, <<>>))
DRef == Decl("ref", FieldTypeId(FALSE, FALSE, <<>>))
DEmail == Decl("email", FieldTypeText(FALSE, <<>>, <<>>, <<100>>, <<>>))
DA == Decl("a", FieldTypeInt(FALSE, <<>>, <<>>, <<>>))
DBool == Decl("bool", FieldTypeBool(FALSE, <<>>))
DDateTime == Decl("datetime", FieldTypeDateTime(TRUE, <<>>, <<>>, <<>>))
DEnum == Decl("enum", FieldTypeEnum(FALSE, <<"a", "b", "c">>, <<>>))
DFloat == Decl("float", FieldTypeFloat(FALSE, <<>>, <<>>, <<>>))
DSingleRelation == Decl("singleRelation", FieldTypeSingleRelation(FALSE, "test0", TRUE))
DOwner == Decl("owner", FieldTypeSingleRelation(TRUE, "users", FALSE))

InitDecls ==
    {DId, DPk, DRef, DEmail, DA, DBool, DDateTime, DEnum, DFloat,
     DSingleRelation, DOwner}

\* the field lists of the collection literals the host constructs
InitSchemas ==
    {<<>>} \cup { <<d>> : d \in InitDecls } \cup
    { <<DId, DEmail>>, <<DEmail, DId>>, <<DA, DBool>>, <<DEnum, DA>>,
      <<DPk, DOwner>>, <<DDateTime, DFloat>>, <<DSingleRelation, DRef>> }

\* the field the host adds later, and the names and types it changes to
NewDecls == { Decl("active", FieldTypeBool(FALSE, <<>>)) }

RenameTargets == {"b", "contact"}

NewTypes == { FieldTypeText(TRUE, <<>>, <<>>, <<>>, <<>>) }

CollectionNames == {"users", "accounts"}

\* a nil error
NoError == "<nil>"

TxErrors == {"Catalog Error", "Constraint Error"}

\* collection.Name = n
SetName(n) ==
    /\ n # collection.Name
    /\ collection' = [collection EXCEPT !.Name = n]
    /\ Touch("SetName", 0, collection.Name, n)
    /\ UNCHANGED <<fieldHeap, arrays, snap>>

\* collection.Schema.Fields[i].Name = n
RenameField(i, n) ==
    LET p == Elems(collection.Schema.Fields)[i] IN
    /\ n # fieldHeap[p].Name
    /\ fieldHeap' = [fieldHeap EXCEPT ![p].Name = n]
    /\ Touch("RenameField", i, fieldHeap[p].Name, n)
    /\ UNCHANGED <<arrays, collection, snap>>

\* collection.Schema.Fields[i].Schema = &FieldSchema{Type: ft}
SetFieldType(i, ft) ==
    LET p == Elems(collection.Schema.Fields)[i] IN
    /\ ft # fieldHeap[p].Schema.Type
    /\ fieldHeap' = [fieldHeap EXCEPT ![p].Schema = [Type |-> ft]]
    /\ Touch("SetFieldType", i, fieldHeap[p].Name, fieldHeap[p].Name)
    /\ UNCHANGED <<arrays, collection, snap>>

\* collection.Schema.Fields[i] = &Field{Name: d.Name, Schema: ...}
OverwriteField(i, d) ==
    LET hdr == collection.Schema.Fields
        p == Len(fieldHeap) + 1
    IN
    /\ Len(fieldHeap) < MaxFieldObjs
    /\ fieldHeap' = Append(fieldHeap, NewField(d.Name, d.Type))
    /\ arrays' = [arrays EXCEPT ![hdr.arr][i] = p]
    /\ Touch("OverwriteField", i, fieldHeap[Elems(hdr)[i]].Name, d.Name)
    /\ UNCHANGED <<collection, snap>>

\* collection.Schema.Fields = append(collection.Schema.Fields, &Field{...}):
\* in place when the backing array has room, else into a new array of
\* twice the capacity
AppendField(d) ==
    LET hdr == collection.Schema.Fields
        arr == arrays[hdr.arr]
        cap == Len(arr)
        p == Len(fieldHeap) + 1
        newcap == IF cap = 0 THEN 1 ELSE 2 * cap
        grown == [i \in 1..newcap |->
                    IF i <= hdr.len THEN arr[i] ELSE IF i = hdr.len + 1 THEN p ELSE 0]
    IN
    /\ Len(fieldHeap) < MaxFieldObjs
    /\ fieldHeap' = Append(fieldHeap, NewField(d.Name, d.Type))
    /\ IF hdr.len < cap
       THEN /\ arrays' = [arrays EXCEPT ![hdr.arr][hdr.len + 1] = p]
            /\ collection' = [collection EXCEPT !.Schema.Fields.len = hdr.len + 1]
       ELSE /\ arrays' = Append(arrays, grown)
            /\ collection' = [collection EXCEPT !.Schema.Fields =
                                  [arr |-> Len(arrays) + 1, len |-> hdr.len + 1]]
    /\ Touch("AppendField", hdr.len + 1, "", d.Name)
    /\ UNCHANGED snap

\* fields := collection.Schema.Fields
\* collection.Schema.Fields = append(fields[:i], fields[i+1:]...):
\* the tail is shifted left inside the backing array
RemoveField(i) ==
    LET hdr == collection.Schema.Fields
        arr == arrays[hdr.arr]
        shifted == [k \in 1..Len(arr) |->
                      IF k >= i /\ k < hdr.len THEN arr[k + 1] ELSE arr[k]]
    IN
    /\ arrays' = [arrays EXCEPT ![hdr.arr] = shifted]
    /\ collection' = [collection EXCEPT !.Schema.Fields.len = hdr.len - 1]
    /\ Touch("RemoveField", i, fieldHeap[arr[i]].Name, "")
    /\ UNCHANGED <<fieldHeap, snap>>

-----------------------------------------------------------------------------
(* DuckDBTransaction.SaveCollection *)

\* a statement handed to tx.Exec: the text, and its parts for reference
Stmt(op, table, args, sql) == [op |-> op, table |-> table, args |-> args, sql |-> sql]

\* CreateTableStmt with the columns collected in reverse order
CreateTableStmt_Reversed(c) ==
    LET fields == Elems(c.Schema.Fields)
        n == Len(fields)
        columns == [i \in 1..n |->
                      columnSQL(fieldHeap[fields[n + 1 - i]].Name,
                                fieldHeap[fields[n + 1 - i]].Schema.Type)]
    IN  Stmt("CREATE TABLE", c.Name, columns,
             "CREATE TABLE " \o c.Name \o " (" \o Join(columns, ", ") \o ")")

CreateTableStmt(c) ==
    LET fields == Elems(c.Schema.Fields)
        columns == [i \in 1..Len(fields) |->
                      columnSQL(fieldHeap[fields[i]].Name,
                                fieldHeap[fields[i]].Schema.Type)]
    IN  Stmt("CREATE TABLE", c.Name, columns,
             "CREATE TABLE " \o c.Name \o " (" \o Join(columns, ", ") \o ")")

RenameTableStmt(c) ==
    Stmt("RENAME TABLE", c.original[1].Name, <<c.Name>>,
         "ALTER TABLE " \o c.original[1].Name \o " RENAME TO " \o c.Name)

DropColumnStmt(c, field) ==
    Stmt("DROP COLUMN", c.Name, <<field.Name>>,
         "ALTER TABLE " \o c.Name \o " DROP COLUMN " \o field.Name)

RenameColumnStmt(c, field) ==
    Stmt("RENAME COLUMN", c.Name, <<field.original[1].Name, field.Name>>,
         "ALTER TABLE " \o c.Name \o " RENAME COLUMN " \o field.original[1].Name
            \o " TO " \o field.Name)

AddColumnStmt(c, field) ==
    Stmt("ADD COLUMN", c.Name, <<columnSQL(field.Name, field.Schema.Type)>>,
         "ALTER TABLE " \o c.Name \o " ADD COLUMN "
            \o columnSQL(field.Name, field.Schema.Type))

\* the filter predicates; a nil pointer dereference panics
IsCreateField(field) == field.original = <<>>

RenamePredPanics(field) ==
    \/ field.original = <<>>
    \/ field.original[1].original = <<>>

IsRenameField(field) == field.original[1].original[1].Name # field.Name

IsRemoveField(c, origField) ==
    ~ \E i \in 1..c.Schema.Fields.len :
        LET field == fieldHeap[Elems(c.Schema.Fields)[i]]
        IN  field.original # <<>> /\ field.original[1].Name = origField.Name

Objs(ptrs) == [i \in 1..Len(ptrs) |-> fieldHeap[ptrs[i]]]

createFields(c) == SelectSeq(Objs(Elems(c.Schema.Fields)), IsCreateField)

renameFieldsPanics(c) ==
    \E i \in 1..c.Schema.Fields.len :
        RenamePredPanics(fieldHeap[Elems(c.Schema.Fields)[i]])

renameFields(c) == SelectSeq(Objs(Elems(c.Schema.Fields)), IsRenameField)

removeFields(c) ==
    SelectSeq(Objs(Elems(c.original[1].Schema.Fields)),
              LAMBDA origField : IsRemoveField(c, origField))

Map1(f, Op(_)) == [i \in 1..Len(f) |-> Op(f[i])]

\* the statements of the rename step, which runs before the filters
RenameStep(c) ==
    IF c.original[1].Name # c.Name THEN <<RenameTableStmt(c)>> ELSE <<>>

\* the Exec calls SaveCollection makes when none of them fails, in order
Plan(c) ==
    IF c.original = <<>> THEN <<CreateTableStmt(c)>>
    ELSE IF renameFieldsPanics(c) THEN RenameStep(c)
    ELSE RenameStep(c)
         \o Map1(removeFields(c), LAMBDA f : DropColumnStmt(c, f))
         \o Map1(renameFields(c), LAMBDA f : RenameColumnStmt(c, f))
         \o Map1(createFields(c), LAMBDA f : AddColumnStmt(c, f))

Panics(c) == c.original # <<>> /\ renameFieldsPanics(c)

\* what tx.Exec returns for the first n statements when the failAt-th fails
ExecResults(n, failAt, e) == [k \in 1..n |-> IF k = failAt THEN e ELSE NoError]

SaveCollection_IgnoresErrors(failAt, e) ==
    LET plan == Plan(collection) IN
    /\ stmts' = plan
    /\ execErrs' = ExecResults(Len(plan), failAt, e)
    /\ result' = IF Panics(collection) THEN "panic" ELSE "ok"
    /\ UNCHANGED <<fieldHeap, arrays, collection, snap, delta, steps>>
    /\ UNCHANGED <<idVars, valVars>>

\* SaveCollection(collection) when the transaction fails the failAt-th Exec
\* with error e (failAt = 0: no Exec fails).  The first failed Exec returns
\* its error; the panic follows the rename step.
SaveCollection(failAt, e) ==
    LET plan == Plan(collection) IN
    /\ IF failAt \in 1..Len(plan)
       THEN /\ stmts' = SubSeq(plan, 1, failAt)
            /\ execErrs' = ExecResults(failAt, failAt, e)
            /\ result' = e
       ELSE /\ stmts' = plan
            /\ execErrs' = ExecResults(Len(plan), failAt, e)
            /\ result' = IF Panics(collection) THEN "panic" ELSE "ok"
    /\ UNCHANGED <<fieldHeap, arrays, collection, snap, delta, steps>>
    /\ UNCHANGED <<idVars, valVars>>

-----------------------------------------------------------------------------
(* The schema specification: a host declares a collection, mutates it,     *)
(* forwards it and saves it.                                               *)

InitWith(decls) ==
    /\ fieldHeap = [i \in 1..Len(decls) |-> NewField(decls[i].Name, decls[i].Type)]
    /\ arrays = << [i \in 1..Len(decls) |-> i] >>
    /\ collection = [original |-> <<>>, Name |-> "users",
                     Schema |-> [Fields |-> [arr |-> 1, len |-> Len(decls)]]]
    /\ stmts = <<>>
    /\ execErrs = <<>>
    /\ result = "none"
    /\ snap = <<>>
    /\ delta = <<>>
    /\ steps = 0

SchemaInit == \E decls \in InitSchemas : InitWith(decls)

\* no identifier and no value is being validated
IdIdle ==
    /\ idSource = "none"
    /\ idValue = NilV
    /\ idErr = "none"
    /\ idEdits = <<>>

ValIdle ==
    /\ vType = <<>>
    /\ vInput = NilV
    /\ vOut = <<>>

Init == SchemaInit /\ IdIdle /\ ValIdle

Positions == 1..collection.Schema.Fields.len

Next ==
    \/ Forward
    \/ \E n \in CollectionNames : SetName(n)
    \/ \E i \in Positions, n \in RenameTargets : RenameField(i, n)
    \/ \E i \in Positions, ft \in NewTypes : SetFieldType(i, ft)
    \/ \E i \in Positions, d \in NewDecls : OverwriteField(i, d)
    \/ \E d \in NewDecls : AppendField(d)
    \/ \E i \in Positions : RemoveField(i)
    \/ \E failAt \in 0..MaxFail, e \in TxErrors : SaveCollection(failAt, e)

Spec == Init /\ [][Next]_vars

-----------------------------------------------------------------------------
(* Identifiers: GenerateId and ValidateId *)

\* An int64 is four 16-bit limbs, least significant first.
Limb == 65536

\* x * 1000 in int64 arithmetic: the carry out of the top limb is lost
Mul1000(x) ==
    LET t1 == x[1] * 1000
        t2 == x[2] * 1000 + (t1 \div Limb)
        t3 == x[3] * 1000 + (t2 \div Limb)
        t4 == x[4] * 1000 + (t3 \div Limb)
    IN  <<t1 % Limb, t2 % Limb, t3 % Limb, t4 % Limb>>

Shr4(x) ==
    << (x[1] \div 16) + (x[2] % 16) * 4096,
       (x[2] \div 16) + (x[3] % 16) * 4096,
       (x[3] \div 16) + (x[4] % 16) * 4096,
       x[4] \div 16 >>

HexDigits == "0123456789abcdef"
HexDigit(d) == SubSeq(HexDigits, d + 1, d + 1)

\* fmt's %x of a non-negative int64: the digits of the value, most
\* significant first, none for leading zero nibbles
RECURSIVE FmtHexInt(_)
FmtHexInt(x) ==
    IF x[2] = 0 /\ x[3] = 0 /\ x[4] = 0 /\ x[1] < 16
    THEN HexDigit(x[1])
    ELSE FmtHexInt(Shr4(x)) \o HexDigit(x[1] % 16)

\* fmt's %x of a []byte: two digits per byte
RECURSIVE FmtHexBytes(_)
FmtHexBytes(bytes) ==
    IF bytes = <<>> THEN ""
    ELSE HexDigit(Head(bytes) \div 16) \o HexDigit(Head(bytes) % 16)
            \o FmtHexBytes(Tail(bytes))

EntropyLen == 8

\* GenerateId when time.Now().UnixMilli() is millis and rand.Read fills
\* the buffer with entropy
GenerateId(millis, entropy) ==
    LET timestamp == Mul1000(millis)
    IN  FmtHexInt(timestamp) \o FmtHexBytes(entropy)

UpperLetters == "ABCDEFGHIJKLMNOPQRSTUVWXYZ"
LowerLetters == "abcdefghijklmnopqrstuvwxyz"

RECURSIVE IndexOf(_, _)
IndexOf(ch, str) ==
    IF str = "" THEN 0
    ELSE IF Head(str) = ch THEN 1
    ELSE LET k == IndexOf(ch, Tail(str)) IN IF k = 0 THEN 0 ELSE k + 1

Contains(str, ch) == IndexOf(ch, str) # 0

\* strings.ToLower on ASCII text
RECURSIVE ToLower(_)
ToLower(str) ==
    IF str = "" THEN ""
    ELSE LET k == IndexOf(Head(str), UpperLetters)
         IN  (IF k = 0 THEN Head(str) ELSE SubSeq(LowerLetters, k, k))
                \o ToLower(Tail(str))

\* strings.Trim: drop the leading and the trailing characters of cutset
RECURSIVE TrimLeft(_, _)
TrimLeft(str, cutset) ==
    IF str # "" /\ Contains(cutset, Head(str)) THEN TrimLeft(Tail(str), cutset)
    ELSE str

RECURSIVE TrimRight(_, _)
TrimRight(str, cutset) ==
    IF str # "" /\ Contains(cutset, SubSeq(str, Len(str), Len(str)))
    THEN TrimRight(SubSeq(str, 1, Len(str) - 1), cutset)
    ELSE str

Trim(str, cutset) == TrimRight(TrimLeft(str, cutset), cutset)


requiredLen == 31

\* ValidateId without the lower-casing step
ValidateId_CaseSensitive(value) ==
    IF value.tag # "string" THEN "invalid id, expected string value"
    ELSE IF Len(value.s) # requiredLen
    THEN "invalid id, expected string of length 31"
    ELSE IF Len(Trim(value.s, "0123456789abcdef")) # 0
    THEN "invalid id, expcted hex string"
    ELSE NoError

ValidateId(value) ==
    IF value.tag # "string" THEN "invalid id, expected string value"
    ELSE IF Len(value.s) # requiredLen
    THEN "invalid id, expected string of length 31"
    ELSE IF Len(Trim(ToLower(value.s), "0123456789abcdef")) # 0
    THEN "invalid id, expcted hex string"
    ELSE NoError

-----------------------------------------------------------------------------
(* The field type catalog's ValidateValue *)

Ret(v, e) == [value |-> v, err |-> e]

\* fmt's %v of an integer
RECURSIVE FmtDec(_)
FmtDec(n) ==
    IF n < 0 THEN "-" \o FmtDec(0 - n)
    ELSE IF n < 10 THEN SubSeq("0123456789", n + 1, n + 1)
    ELSE FmtDec(n \div 10) \o SubSeq("0123456789", (n % 10) + 1, (n % 10) + 1)

\* Instants are seconds within one minute; time.Time.Format(time.RFC3339)
\* and time.Parse(time.RFC3339, str) on them.
Instants == 0..59
FormatRFC3339(t) ==
    "2024-01-01T00:00:" \o (IF t < 10 THEN "0" ELSE "") \o FmtDec(t) \o "Z"
ParseFails(str) == \A t \in Instants : FormatRFC3339(t) # str
ParseRFC3339(str) == CHOOSE t \in Instants : FormatRFC3339(t) = str

\* regexp.MatchString for the patterns "^<literal>": err is set for a
\* pattern that does not compile, matched tells whether str matches
MatchString(pattern, str) ==
    [matched |-> ~ pattern.malformed /\
                 Len(str) >= Len(pattern.prefix) /\
                 SubSeq(str, 1, Len(pattern.prefix)) = pattern.prefix,
     err |-> IF pattern.malformed THEN "error parsing regexp" ELSE NoError]

\* slices.Contains
SliceContains(values, v) == \E i \in 1..Len(values) : values[i] = v

validateNullable(nullable, value) ==
    IF value.tag = "nil" /\ ~ nullable
    THEN "invalid value, expected non-null"
    ELSE NoError

FieldTypeId_ValidateValue(ft, value) ==
    IF validateNullable(ft.Nullable \/ ft.PrimaryKey, value) # NoError
    THEN Ret(NilV, validateNullable(ft.Nullable \/ ft.PrimaryKey, value))
    ELSE IF value.tag = "nil" THEN Ret(NilV, NoError)
    ELSE IF ValidateId(value) # NoError THEN Ret(NilV, ValidateId(value))
    ELSE Ret(value, NoError)

FieldTypeText_ValidateValue(ft, value) ==
    IF validateNullable(ft.Nullable, value) # NoError
    THEN Ret(NilV, validateNullable(ft.Nullable, value))
    ELSE IF value.tag = "nil"
    THEN IF ft.CreateDefaultValue # <<>>
         THEN Ret(ft.CreateDefaultValue[1], NoError)
         ELSE Ret(NilV, NoError)
    ELSE IF value.tag # "string" THEN Ret(NilV, "invalid value, expected string")
    ELSE IF ft.CreateMin # <<>> /\ Len(value.s) < ft.CreateMin[1]
    THEN Ret(NilV, "value too short, min length is " \o FmtDec(ft.CreateMin[1]))
    ELSE IF ft.CreateMax # <<>> /\ Len(value.s) > ft.CreateMax[1]
    THEN Ret(NilV, "value too long, max length is " \o FmtDec(ft.CreateMax[1]))
    ELSE IF ft.CreatePattern # <<>> /\
            MatchString(ft.CreatePattern[1], value.s).err # NoError
    THEN Ret(NilV, "value does not match pattern, pattern is "
                      \o ft.CreatePattern[1].src)
    ELSE Ret(value, NoError)

\* FieldTypeInt and FieldTypeFloat differ in the native type they expect
Number_ValidateValue(ft, value, tag, expected) ==
    IF validateNullable(ft.Nullable, value) # NoError
    THEN Ret(NilV, validateNullable(ft.Nullable, value))
    ELSE IF value.tag = "nil"
    THEN IF ft.CreateDefaultValue # <<>>
         THEN Ret(ft.CreateDefaultValue[1], NoError)
         ELSE Ret(NilV, NoError)
    ELSE IF value.tag # tag THEN Ret(NilV, "invalid value, expected " \o expected)
    ELSE IF ft.CreateMin # <<>> /\ value.n < ft.CreateMin[1]
    THEN Ret(NilV, "value too small, min value is " \o FmtDec(ft.CreateMin[1]))
    ELSE IF ft.CreateMax # <<>> /\ value.n > ft.CreateMax[1]
    THEN Ret(NilV, "value too big, max value is " \o FmtDec(ft.CreateMax[1]))
    ELSE Ret(value, NoError)

FieldTypeInt_ValidateValue(ft, value) ==
    Number_ValidateValue(ft, value, "int64", "integer")

FieldTypeFloat_ValidateValue(ft, value) ==
    Number_ValidateValue(ft, value, "float64", "float")

FieldTypeBool_ValidateValue(ft, value) ==
    IF validateNullable(ft.Nullable, value) # NoError
    THEN Ret(NilV, validateNullable(ft.Nullable, value))
    ELSE IF value.tag = "nil"
    THEN IF ft.CreateDefaultValue # <<>>
         THEN Ret(ft.CreateDefaultValue[1], NoError)
         ELSE Ret(NilV, NoError)
    ELSE IF value.tag # "bool" THEN Ret(NilV, "invalid value, expected bool")
    ELSE Ret(value, NoError)

FieldTypeDateTime_ValidateValue(ft, value) ==
    IF validateNullable(ft.Nullable, value) # NoError
    THEN Ret(NilV, validateNullable(ft.Nullable, value))
    ELSE IF value.tag = "nil"
    THEN IF ft.CreateDefaultValue # <<>>
         THEN Ret(ft.CreateDefaultValue[1], NoError)
         ELSE Ret(NilV, NoError)
    ELSE LET str == IF value.tag = "string" THEN value.s ELSE "" IN
         IF value.tag # "time.Time" /\ ParseFails(str)
         THEN Ret(NilV, "invalid value, expected datetime or RFC-3339 datetime string")
         ELSE LET d == IF value.tag = "time.Time" THEN value.n ELSE ParseRFC3339(str) IN
              IF ft.CreateMin # <<>> /\ d < ft.CreateMin[1]
              THEN Ret(NilV, "value too early, min value is " \o FormatRFC3339(d))
              ELSE IF ft.CreateMax # <<>> /\ d > ft.CreateMax[1]
              THEN Ret(NilV, "value too late, max value is " \o FormatRFC3339(d))
              ELSE Ret(TimeV(d), NoError)

\* FieldTypeEnum.ValidateValue with the default checked only when it is used
FieldTypeEnum_ValidateValue_LateCheck(ft, value) ==
    LET defaultValue == IF ft.CreateDefaultValue # <<>>
                        THEN ft.CreateDefaultValue[1].s ELSE ""
    IN
    IF validateNullable(ft.Nullable, value) # NoError
    THEN Ret(NilV, validateNullable(ft.Nullable, value))
    ELSE IF value.tag = "nil"
    THEN IF ft.CreateDefaultValue # <<>> /\ ~ SliceContains(ft.EnumValues, defaultValue)
         THEN Ret(NilV, "configuration error, invalid default value")
         ELSE IF Len(defaultValue) > 0 THEN Ret(StrV(defaultValue), NoError)
         ELSE Ret(NilV, NoError)
    ELSE IF value.tag # "string" \/ ~ SliceContains(ft.EnumValues, value.s)
    THEN Ret(NilV, "invalid value, expected one of ["
                      \o Join(ft.EnumValues, ", ") \o "]")
    ELSE Ret(value, NoError)

FieldTypeEnum_ValidateValue(ft, value) ==
    LET defaultValue == IF ft.CreateDefaultValue # <<>>
                        THEN ft.CreateDefaultValue[1].s ELSE ""
    IN
    IF ft.CreateDefaultValue # <<>> /\ ~ SliceContains(ft.EnumValues, defaultValue)
    THEN Ret(NilV, "configuration error, invalid default value")
    ELSE IF validateNullable(ft.Nullable, value) # NoError
    THEN Ret(NilV, validateNullable(ft.Nullable, value))
    ELSE IF value.tag = "nil"
    THEN IF Len(defaultValue) > 0 THEN Ret(StrV(defaultValue), NoError)
         ELSE Ret(NilV, NoError)
    ELSE IF value.tag # "string" \/ ~ SliceContains(ft.EnumValues, value.s)
    THEN Ret(NilV, "invalid value, expected one of ["
                      \o Join(ft.EnumValues, ", ") \o "]")
    ELSE Ret(value, NoError)

FieldTypeSingleRelation_ValidateValue(ft, value) ==
    LET idType == FieldTypeId(ft.Nullable, FALSE, <<>>)
    IN  FieldTypeId_ValidateValue(idType, value)

\* fieldType.ValidateValue(value), dispatched on the variant
ValidateValue(ft, value) ==
    CASE ft.kind = "FieldTypeId" -> FieldTypeId_ValidateValue(ft, value)
      [] ft.kind = "FieldTypeText" -> FieldTypeText_ValidateValue(ft, value)
      [] ft.kind = "FieldTypeInt" -> FieldTypeInt_ValidateValue(ft, value)
      [] ft.kind = "FieldTypeFloat" -> FieldTypeFloat_ValidateValue(ft, value)
      [] ft.kind = "FieldTypeBool" -> FieldTypeBool_ValidateValue(ft, value)
      [] ft.kind = "FieldTypeDateTime" -> FieldTypeDateTime_ValidateValue(ft, value)
      [] ft.kind = "FieldTypeEnum" -> FieldTypeEnum_ValidateValue(ft, value)
      [] ft.kind = "FieldTypeSingleRelation" ->
            FieldTypeSingleRelation_ValidateValue(ft, value)

-----------------------------------------------------------------------------
(* The identifier specification: a caller generates an identifier, or      *)
(* supplies a value and edits it, and has it validated.                    *)

\* time.Now().UnixMilli() on 2023-11-14 (1700000000000) and 2100-01-01
\* (4102444800000), and in the years 4253 and 38504, where the timestamp
\* takes 15 and 16 hexadecimal digits
ClockMillis ==
    { <<26624, 53221, 395, 0>>, <<55296, 11459, 955, 0>>,
      <<50856, 14155, 16777, 0>>, <<27263, 29884, 6291, 4>> }

ByteSamples == {0, 10, 255}

ValidIdSample == "0123456789abcdef0123456789abcde"

SuppliedIds ==
    { StrV(ValidIdSample), StrV("0123456789ABCDEF0123456789ABCDE"),
      StrV("aAbBcCdDeEfF0011223344556677889"), StrV(""), IntV(31), NilV }

EditChars == {"g", "G", "-", " ", "0", "F"}

CallGenerateId ==
    /\ idSource = "none"
    /\ \E millis \in ClockMillis, entropy \in [1..EntropyLen -> ByteSamples] :
          idValue' = StrV(GenerateId(millis, entropy))
    /\ idSource' = "generated"
    /\ UNCHANGED <<idErr, idEdits, schemaVars, valVars>>

SupplyId(v) ==
    /\ idSource = "none"
    /\ idValue' = v
    /\ idSource' = "supplied"
    /\ UNCHANGED <<idErr, idEdits, schemaVars, valVars>>

CanEdit ==
    /\ idSource = "supplied"
    /\ idValue.tag = "string"
    /\ idErr = "none"
    /\ Len(idEdits) < MaxEdits

Edit(op, pos, ch) == [op |-> op, pos |-> pos, ch |-> ch, before |-> idValue.s]

ReplaceChar(i, ch) ==
    /\ CanEdit
    /\ i \in 1..Len(idValue.s)
    /\ idValue' = StrV(SubSeq(idValue.s, 1, i - 1) \o ch
                        \o SubSeq(idValue.s, i + 1, Len(idValue.s)))
    /\ idEdits' = Append(idEdits, Edit("replace", i, ch))
    /\ UNCHANGED <<idSource, idErr, schemaVars, valVars>>

Truncate ==
    /\ CanEdit
    /\ Len(idValue.s) > 0
    /\ idValue' = StrV(SubSeq(idValue.s, 1, Len(idValue.s) - 1))
    /\ idEdits' = Append(idEdits, Edit("truncate", Len(idValue.s), ""))
    /\ UNCHANGED <<idSource, idErr, schemaVars, valVars>>

Extend(ch) ==
    /\ CanEdit
    /\ idValue' = StrV(idValue.s \o ch)
    /\ idEdits' = Append(idEdits, Edit("extend", Len(idValue.s) + 1, ch))
    /\ UNCHANGED <<idSource, idErr, schemaVars, valVars>>

CallValidateId ==
    /\ idSource # "none"
    /\ idErr = "none"
    /\ idErr' = ValidateId(idValue)
    /\ UNCHANGED <<idSource, idValue, idEdits, schemaVars, valVars>>

IdInit == InitWith(<<>>) /\ IdIdle /\ ValIdle

IdNext ==
    \/ CallGenerateId
    \/ \E v \in SuppliedIds : SupplyId(v)
    \/ \E i \in 1..requiredLen + MaxEdits, ch \in EditChars : ReplaceChar(i, ch)
    \/ Truncate
    \/ \E ch \in EditChars : Extend(ch)
    \/ CallValidateId

SpecId == IdInit /\ [][IdNext]_vars

-----------------------------------------------------------------------------
(* The validation specification: a field type of the catalog validates a   *)
(* value.                                                                   *)

Providers(values) == {<<>>} \cup { <<v>> : v \in values }

PrefixH == [src |-> "^h", malformed |-> FALSE, prefix |-> "h"]
Unclosed == [src |-> "(", malformed |-> TRUE, prefix |-> ""]

ValidateTypes ==
    { FieldTypeId(n, pk, d) :
        n \in BOOLEAN, pk \in BOOLEAN, d \in Providers({StrV(ValidIdSample)}) }
    \cup
    { FieldTypeText(n, d, lo, hi, pat) :
        n \in BOOLEAN, d \in Providers({StrV("hello")}), lo \in Providers({2}),
        hi \in Providers({5}), pat \in Providers({PrefixH, Unclosed}) }
    \cup
    { FieldTypeInt(n, d, lo, hi) :
        n \in BOOLEAN, d \in Providers({IntV(5)}), lo \in Providers({0}),
        hi \in Providers({10}) }
    \cup
    { FieldTypeFloat(n, d, lo, hi) :
        n \in BOOLEAN, d \in Providers({FloatV(5)}), lo \in Providers({0}),
        hi \in Providers({10}) }
    \cup
    { FieldTypeBool(n, d) : n \in BOOLEAN, d \in Providers({BoolV(TRUE)}) }
    \cup
    { FieldTypeDateTime(n, d, lo, hi) :
        n \in BOOLEAN, d \in Providers({TimeV(20)}), lo \in Providers({10}),
        hi \in Providers({30}) }
    \cup
    { FieldTypeEnum(n, vals, d) :
        n \in BOOLEAN, vals \in {<<"a", "b", "c">>, <<"", "a">>},
        d \in Providers({StrV("a"), StrV("z"), StrV("")}) }
    \cup
    { FieldTypeSingleRelation(n, "users", c) : n \in BOOLEAN, c \in BOOLEAN }

Inputs ==
    { NilV, StrV("hello"), StrV("hi"), StrV("a"), StrV("z"), StrV(""),
      StrV("abcdefg"), StrV(ValidIdSample), StrV(FormatRFC3339(20)),
      StrV(FormatRFC3339(5)), IntV(5), IntV(-1), IntV(11), FloatV(5),
      FloatV(11), BoolV(TRUE), TimeV(20), TimeV(5), TimeV(50) }

CallValidateValue ==
    /\ vOut = <<>>
    /\ vOut' = <<ValidateValue(vType, vInput)>>
    /\ UNCHANGED <<vType, vInput, schemaVars, idVars>>

ValInit ==
    /\ InitWith(<<>>)
    /\ IdIdle
    /\ vType \in ValidateTypes
    /\ vInput \in Inputs
    /\ vOut = <<>>

ValNext == CallValidateValue

SpecValidate == ValInit /\ [][ValNext]_vars

-----------------------------------------------------------------------------
(* Properties of the schema specification *)

Saved == result # "none"
Completed == result \in {"ok", "panic"}       \* no Exec failed
Forwarded == collection.original # <<>>
LiveField(i) == fieldHeap[Elems(collection.Schema.Fields)[i]]
BaselineField(j) == fieldHeap[Elems(collection.original[1].Schema.Fields)[j]]
StructuralOps == {"RENAME TABLE", "DROP COLUMN", "RENAME COLUMN", "ADD COLUMN"}
StmtsWith(op, args) == { k \in DOMAIN stmts : stmts[k].op = op /\ stmts[k].args = args }
StartsWith(str, prefix) ==
    Len(str) >= Len(prefix) /\ SubSeq(str, 1, Len(prefix)) = prefix

\* C1: SaveCollection right after Forward, with the collection unchanged,
\* completes normally and submits no structural statement.
C1_ForwardThenSaveSubmitsNothing ==
    (Forwarded /\ delta = <<>> /\ Saved) =>
        /\ result = "ok"
        /\ \A k \in DOMAIN stmts : stmts[k].op \notin StructuralOps

\* C2: after Forward, renaming the live field "a" to "b" and nothing else
\* makes SaveCollection submit exactly one RENAME COLUMN a TO b and no
\* ADD COLUMN or DROP COLUMN for that field.
C2_RenameDetected ==
    (/\ Forwarded /\ Completed
     /\ Len(delta) = 1 /\ delta[1].op = "RenameField"
     /\ delta[1].from = "a" /\ delta[1].to = "b") =>
        /\ Cardinality(StmtsWith("RENAME COLUMN", <<"a", "b">>)) = 1
        /\ \A k \in DOMAIN stmts :
              /\ stmts[k].op = "DROP COLUMN" => stmts[k].args[1] \notin {"a", "b"}
              /\ stmts[k].op = "ADD COLUMN" =>
                    /\ ~ StartsWith(stmts[k].args[1], "a ")
                    /\ ~ StartsWith(stmts[k].args[1], "b ")

\* the current fields with no original, and the baseline fields that no
\* current field's original corresponds to
AddedPositions == { i \in 1..collection.Schema.Fields.len : LiveField(i).original = <<>> }
RemovedPositions ==
    { j \in 1..collection.original[1].Schema.Fields.len :
        ~ \E i \in 1..collection.Schema.Fields.len :
            /\ LiveField(i).original # <<>>
            /\ LiveField(i).original[1].Name = BaselineField(j).Name }
ColumnStmtsNaming(op, name) ==
    { k \in DOMAIN stmts :
        /\ stmts[k].op = op
        /\ IF op = "ADD COLUMN" THEN StartsWith(stmts[k].args[1], name \o " ")
           ELSE name \in { stmts[k].args[a] : a \in DOMAIN stmts[k].args } }

\* C3: on a collection with an original, every current field without an
\* original gets one ADD COLUMN and no DROP or RENAME, every baseline field
\* without a current counterpart gets one DROP COLUMN and no ADD or RENAME.
C3_AddDropDisjoint ==
    (Forwarded /\ Completed) =>
        /\ \A i \in AddedPositions :
              /\ Cardinality(ColumnStmtsNaming("ADD COLUMN", LiveField(i).Name)) = 1
              /\ ColumnStmtsNaming("DROP COLUMN", LiveField(i).Name) = {}
              /\ ColumnStmtsNaming("RENAME COLUMN", LiveField(i).Name) = {}
        /\ \A j \in RemovedPositions :
              /\ Cardinality(ColumnStmtsNaming("DROP COLUMN", BaselineField(j).Name)) = 1
              /\ ColumnStmtsNaming("ADD COLUMN", BaselineField(j).Name) = {}
              /\ ColumnStmtsNaming("RENAME COLUMN", BaselineField(j).Name) = {}

\* C4: SaveCollection on a collection without an original submits exactly
\* one statement, a CREATE TABLE for collection.Name with one column
\* definition per field of Schema.Fields, in declared order.
C4_CreateIfAbsent ==
    (~ Forwarded /\ Saved) =>
        /\ Len(stmts) = 1
        /\ stmts[1].op = "CREATE TABLE"
        /\ stmts[1].table = collection.Name
        /\ StartsWith(stmts[1].sql, "CREATE TABLE " \o collection.Name \o " (")
        /\ Len(stmts[1].args) = collection.Schema.Fields.len
        /\ \A i \in 1..collection.Schema.Fields.len :
              StartsWith(stmts[1].args[i], LiveField(i).Name \o " ")

\* a two-field collection of a relation and an identifier was created
C4_Witness ==
    /\ ~ Forwarded /\ result = "ok"
    /\ collection.Schema.Fields.len = 2
    /\ LiveField(1).Schema.Type.kind = "FieldTypeSingleRelation"
    /\ Len(stmts) = 1 /\ Len(stmts[1].args) = 2

\* C6: the column of a primary-key FieldTypeId is "<name> TEXT NOT NULL
\* PRIMARY KEY", and the users collection without a baseline is created by
\* CREATE TABLE users (id TEXT NOT NULL PRIMARY KEY, email TEXT NOT NULL).
C6_PrimaryKeyColumn ==
    (~ Forwarded /\ Saved) =>
        /\ \A i \in 1..collection.Schema.Fields.len :
              LET ft == LiveField(i).Schema.Type IN
              (ft.kind = "FieldTypeId" /\ ft.PrimaryKey) =>
                  stmts[1].args[i] = LiveField(i).Name \o " TEXT NOT NULL PRIMARY KEY"
        /\ (collection.Name = "users" /\ DeepValue(collection).Fields = <<DId, DEmail>>) =>
              stmts[1].sql =
                "CREATE TABLE users (id TEXT NOT NULL PRIMARY KEY, email TEXT NOT NULL)"

\* C10: once Forward has run, the snapshot in collection.original keeps the
\* name and the names, order and types of the fields it had at Forward.
C10_BaselineImmutable ==
    Forwarded => DeepValue(collection.original[1]) = snap[1]

\* C11: nothing reachable from a clone carries an original: the snapshot of
\* the collection has none, the snapshot of a live field has none, and no
\* field in the snapshot's field list has one.
C11_HistoryDepthOne ==
    Forwarded =>
        /\ collection.original[1].original = <<>>
        /\ \A i \in 1..collection.Schema.Fields.len :
              LiveField(i).original # <<>> => LiveField(i).original[1].original = <<>>
        /\ \A j \in 1..collection.original[1].Schema.Fields.len :
              BaselineField(j).original = <<>>

OpRank(op) ==
    CASE op = "RENAME TABLE" -> 1
      [] op = "DROP COLUMN" -> 2
      [] op = "RENAME COLUMN" -> 3
      [] op = "ADD COLUMN" -> 4
      [] OTHER -> 0
RenamedPositions ==
    { i \in 1..collection.Schema.Fields.len :
        /\ LiveField(i).original # <<>>
        /\ LiveField(i).original[1].Name # LiveField(i).Name }

\* the statements come in the order RENAME TABLE, DROP COLUMN, RENAME
\* COLUMN, ADD COLUMN, and the column statements name the table by its
\* current name
InOperationOrder ==
    /\ \A k, l \in DOMAIN stmts : k < l => OpRank(stmts[k].op) <= OpRank(stmts[l].op)
    /\ \A k \in DOMAIN stmts :
          stmts[k].op # "RENAME TABLE" => stmts[k].table = collection.Name

\* C12: on a collection with an original, SaveCollection submits RENAME
\* TABLE first (when the name differs), then every DROP COLUMN, then every
\* RENAME COLUMN, then every ADD COLUMN, the column statements naming the
\* table by its new name.
C12_OperationOrder ==
    (Forwarded /\ Completed) =>
        /\ InOperationOrder
        /\ collection.Name # collection.original[1].Name =>
              Len(stmts) > 0 /\ stmts[1].op = "RENAME TABLE"
        /\ \A j \in RemovedPositions :
              ColumnStmtsNaming("DROP COLUMN", BaselineField(j).Name) # {}
        /\ \A i \in RenamedPositions :
              StmtsWith("RENAME COLUMN",
                        <<LiveField(i).original[1].Name, LiveField(i).Name>>) # {}
        /\ \A i \in AddedPositions :
              ColumnStmtsNaming("ADD COLUMN", LiveField(i).Name) # {}

\* what does hold of the statements that are submitted: their order
SubmittedInOperationOrder == (Forwarded /\ Saved) => InOperationOrder

ExecFailed == \E k \in DOMAIN execErrs : execErrs[k] # NoError
Originals ==
    [collection |-> collection.original,
     fields |-> [p \in DOMAIN fieldHeap |-> fieldHeap[p].original]]

\* C13: when the transaction returns an error for the k-th statement,
\* SaveCollection submits nothing after the k-th (no later statement, no
\* retry), returns that same error, and leaves the original snapshot of the
\* collection and of every field as it was.
C13_AbortOnFirstFailure ==
    /\ [](\A k \in DOMAIN execErrs :
            execErrs[k] # NoError =>
                /\ Len(stmts) = k
                /\ Len(execErrs) = k
                /\ result = execErrs[k])
    /\ [][ExecFailed' => Originals' = Originals]_vars

\* the second of two statements failed: the first column statement after a
\* successful one
C13_Witness ==
    /\ Forwarded
    /\ Len(stmts) = 2
    /\ execErrs[1] = NoError
    /\ execErrs[2] \in TxErrors
    /\ result = execErrs[2]
    /\ Originals.collection # <<>>

-----------------------------------------------------------------------------
(* Properties of the identifier specification *)

HexCharsAnyCase ==
    {"0", "1", "2", "3", "4", "5", "6", "7", "8", "9",
     "a", "b", "c", "d", "e", "f", "A", "B", "C", "D", "E", "F"}
CharAt(str, i) == SubSeq(str, i, i)
WellFormedId(v) ==
    /\ v.tag = "string"
    /\ Len(v.s) = 31
    /\ \A i \in 1..Len(v.s) : CharAt(v.s, i) \in HexCharsAnyCase

\* C5: the string GenerateId produces is accepted by ValidateId, whatever
\* the clock and the entropy.
C5_GeneratedIdPasses ==
    (idSource = "generated" /\ idErr # "none") =>
        idErr = NoError /\ WellFormedId(idValue)

\* C8: ValidateId accepts a value exactly when it is a string of length 31
\* of hexadecimal digits in either case; a valid id with one character
\* replaced by a non-hex character, or cut by one character, is rejected.
C8_ValidateIdAccepts ==
    idErr # "none" =>
        /\ (idErr = NoError) <=> WellFormedId(idValue)
        /\ (/\ Len(idEdits) = 1
            /\ WellFormedId(StrV(idEdits[1].before))
            /\ \/ idEdits[1].op = "truncate"
               \/ idEdits[1].op = "replace" /\ idEdits[1].ch \notin HexCharsAnyCase)
           => idErr # NoError

\* the middle character of a valid id was replaced by "g" and the result
\* was rejected
C8_Witness ==
    /\ idErr = "invalid id, expcted hex string"
    /\ Len(idEdits) = 1
    /\ idEdits[1] = [op |-> "replace", pos |-> 16, ch |-> "g", before |-> ValidIdSample]

-----------------------------------------------------------------------------
(* Properties of the validation specification *)

Validated == vOut # <<>>
Members(values) == { values[i] : i \in DOMAIN values }

\* C7: a nullable field type with a default provider returns the provider's
\* value, and no error, for a nil input (for an enum: when the default is
\* one of EnumValues).
C7_NullableDefaultReturned ==
    (/\ Validated /\ vInput = NilV
     /\ vType.Nullable /\ vType.CreateDefaultValue # <<>>
     /\ vType.kind = "FieldTypeEnum" =>
            vType.CreateDefaultValue[1].s \in Members(vType.EnumValues)) =>
        vOut[1] = Ret(vType.CreateDefaultValue[1], NoError)

\* C9: an enum whose default provider returns a value outside EnumValues
\* fails every validation with the configuration error, whatever the input
\* and the Nullable flag.
C9_EnumBadDefaultAlwaysFails ==
    (/\ Validated /\ vType.kind = "FieldTypeEnum"
     /\ vType.CreateDefaultValue # <<>>
     /\ vType.CreateDefaultValue[1].s \notin Members(vType.EnumValues)) =>
        vOut[1] = Ret(NilV, "configuration error, invalid default value")

\* a non-nullable enum with a default outside EnumValues was given nil and
\* reported the configuration error, not the non-null error
C9_Witness ==
    /\ Validated
    /\ vType = FieldTypeEnum(FALSE, <<"a", "b", "c">>, <<StrV("z")>>)
    /\ vInput = NilV
    /\ vOut[1].err = "configuration error, invalid default value"

\* a present string within the length bounds of a text type that has a
\* pattern provider
PatternCase ==
    /\ Validated
    /\ vType.kind = "FieldTypeText"
    /\ vType.CreatePattern # <<>>
    /\ vInput.tag = "string"
    /\ vType.CreateMin # <<>> => Len(vInput.s) >= vType.CreateMin[1]
    /\ vType.CreateMax # <<>> => Len(vInput.s) <= vType.CreateMax[1]

\* C14: a text type with a pattern rejects a string within the length
\* bounds that does not match the pattern with the pattern-mismatch error,
\* returns a matching string unchanged, and returns an error for a pattern
\* that does not compile.
C14_TextPatternEnforced ==
    PatternCase =>
        LET pattern == vType.CreatePattern[1]
            mismatch == "value does not match pattern, pattern is " \o pattern.src
        IN  IF pattern.malformed THEN vOut[1].err # NoError
            ELSE IF StartsWith(vInput.s, pattern.prefix)
            THEN vOut[1] = Ret(vInput, NoError)
            ELSE vOut[1].err = mismatch

\* the two parts that hold: a matching string is returned unchanged and a
\* pattern that does not compile gives a returned error
AcceptsMatchAndReportsMalformed ==
    PatternCase =>
        LET pattern == vType.CreatePattern[1]
        IN  /\ pattern.malformed => vOut[1].err # NoError
            /\ (~ pattern.malformed /\ StartsWith(vInput.s, pattern.prefix)) =>
                  vOut[1] = Ret(vInput, NoError)

====
